---- MODULE Spec2Model ----
(***************************************************************************)
(* Gather (take) engine of polars-core:                                    *)
(*   crates/polars-core/src/chunked_array/ops/gather.rs                    *)
(*                                                                         *)
(* A target column (a sequence of chunks, each element a stored value and  *)
(* a validity bit) is gathered through an index (a flat slice of IdxSize,  *)
(* or an IdxCa: chunks of IdxSize with validity).  One call is a run of    *)
(* the machine: Call, the bounds validation (checked entry only), the      *)
(* gather of one output chunk per step, and the construction of the        *)
(* resulting ChunkedArray with its sortedness flag.                        *)
(***************************************************************************)
EXTENDS Integers, Sequences, FiniteSets, TLC

\* ---------------------------------------------------------------- bounds
\* Largest logical length of a target, and largest number of its chunks.
MaxTargetLen == 2
MaxTargetChunks == 2
\* Largest logical length of an index, and largest number of its chunks.
MaxIdxLen == 2
MaxIdxChunks == 2

\* Direct calls of the validators: largest length of the index array.
MaxProbeLen == 66
\* Direct calls of the resolver: largest number of target chunks and largest
\* length of one chunk.
MaxUnitChunks == 4
MaxUnitChunkLen == 3
\* Width of IdxSize in bits, scaled down so that a sum of chunk lengths can
\* exceed it; IdxMax is the largest IdxSize.
IdxBits == 3
IdxMax == 2 ^ IdxBits - 1

\* check_bounds_nulls walks the index in blocks of 32 values (one u32 mask).
BlockSize == 32

\* ------------------------------------------------------------- data model
IsSorted == {"Ascending", "Descending", "Not"}

\* Element categories a gather dispatches on.
Categories == {"Scalar", "Binary", "String", "Struct", "List", "Array"}
ViewCats == {"Binary", "String"}
NestedCats == {"Struct", "List", "Array"}

\* A null element of an output array.
NullElem == [v |-> 0, ok |-> FALSE]

RECURSIVE SumSeq(_)
SumSeq(s) == IF s = <<>> THEN 0 ELSE Head(s) + SumSeq(Tail(s))

RECURSIVE Concat(_)
Concat(ss) == IF ss = <<>> THEN <<>> ELSE Head(ss) \o Concat(Tail(ss))

Lens(chunks) == [c \in DOMAIN chunks |-> Len(chunks[c])]

\* ChunkedArray::len: the logical length, the sum of the chunk lengths.
ca_len(chunks) == SumSeq(Lens(chunks))

\* Array::null_count of one chunk, and ChunkedArray::null_count.
null_count(arr) == Cardinality({k \in DOMAIN arr : ~arr[k].ok})
ca_null_count(chunks) == Cardinality({k \in DOMAIN Concat(chunks) : ~Concat(chunks)[k].ok})

\* PrimitiveArray::values of an index chunk: the stored IdxSize of every
\* slot, null slots included.
values(arr) == [k \in DOMAIN arr |-> arr[k].v]

\* ------------------------------------------------------- bounds validator
Ok == [kind |-> "Ok", msg |-> ""]
Err(kind, msg) == [kind |-> kind, msg |-> msg]

\* polars_utils::index::check_bounds, the dense validator: every value of
\* the slice is < len.
check_bounds(idx, len) ==
    IF \A k \in DOMAIN idx : idx[k] < len
    THEN Ok
    ELSE Err("OutOfBounds", "indices are out of bounds")

\* BitMask::get_u32(offset): the 32 validity bits from offset on, as the set
\* of the positions that are set; bits past the end of the bitmap are 0.
get_u32(mask, offset) ==
    {i \in 0..(BlockSize - 1) : offset + i < Len(mask) /\ mask[offset + i + 1]}

\* The inner loop of check_bounds_nulls: bit i is set iff block[i] < len.
in_bounds_mask(block, len) ==
    {i \in 0..(Len(block) - 1) : block[i + 1] < len}

\* slice::chunks(32): block number b (from 0) of the values.
block_of(vals, b) ==
    SubSeq(vals, BlockSize * b + 1,
           IF BlockSize * (b + 1) < Len(vals) THEN BlockSize * (b + 1) ELSE Len(vals))

\* check_bounds_nulls that requires every slot to be in range, the null
\* ones too (in_bounds compared with all ones instead of the validity mask).
check_bounds_nulls_all_slots(idx, len) ==
    IF \A k \in DOMAIN idx : idx[k].v < len
    THEN Ok
    ELSE Err("ComputeError", "gather indices are out of bounds")

\* check_bounds_nulls over chunks_exact(32): a last block of fewer than 32
\* slots is not visited.
check_bounds_nulls_exact_blocks(idx, len) ==
    LET mask == [k \in DOMAIN idx |-> idx[k].ok]
        vals == values(idx)
        nblocks == Len(vals) \div BlockSize
    IN  IF \A b \in 0..(nblocks - 1) :
              LET m == get_u32(mask, BlockSize * b)
              IN  m = m \cap in_bounds_mask(block_of(vals, b), len)
        THEN Ok
        ELSE Err("ComputeError", "gather indices are out of bounds")

\* check_bounds_nulls: per block, every bit of the validity mask must be
\* set in the in-range mask (m == m & in_bounds).
check_bounds_nulls(idx, len) ==
    LET mask == [k \in DOMAIN idx |-> idx[k].ok]
        vals == values(idx)
        nblocks == (Len(vals) + BlockSize - 1) \div BlockSize
    IN  IF \A b \in 0..(nblocks - 1) :
              LET m == get_u32(mask, BlockSize * b)
              IN  m = m \cap in_bounds_mask(block_of(vals, b), len)
        THEN Ok
        ELSE Err("ComputeError", "gather indices are out of bounds")

\* The closure of check_bounds_ca with the dense validator on every chunk.
chunk_is_ok_dense_only(a, len) == check_bounds(values(a), len) = Ok

\* The closure of check_bounds_ca: the verdict on one index chunk, by the
\* dense validator when the chunk has no nulls and the null-aware one otherwise.
chunk_is_ok(a, len) ==
    IF null_count(a) = 0
    THEN check_bounds(values(a), len) = Ok
    ELSE check_bounds_nulls(a, len) = Ok

\* check_bounds_ca with any() in place of all(): one passing chunk is enough.
check_bounds_ca_any(indices, len) ==
    IF \E c \in DOMAIN indices : chunk_is_ok(indices[c], len)
    THEN Ok
    ELSE Err("OutOfBounds", "gather indices are out of bounds")

\* check_bounds_ca: all chunks must pass.
check_bounds_ca(indices, len) ==
    IF \A c \in DOMAIN indices : chunk_is_ok(indices[c], len)
    THEN Ok
    ELSE Err("OutOfBounds", "gather indices are out of bounds")

\* ---------------------------------------------------------- index resolver
\* IdxSize::wrapping_add in place of checked_add: the sum modulo 2^IdxBits,
\* never None.
wrapping_add(a, b) == [some |-> TRUE, v |-> (a + b) % (IdxMax + 1)]

\* IdxSize::checked_add: None when the sum does not fit IdxSize.
checked_add(a, b) ==
    IF a + b <= IdxMax THEN [some |-> TRUE, v |-> a + b] ELSE [some |-> FALSE, v |-> 0]

\* The loop of cumulative_lengths over the chunk lengths still to come: each
\* turn pushes cumsum, then adds the chunk's length; unwrap() on None panics.
RECURSIVE cumlens_loop(_, _, _)
cumlens_loop(lens, cumsum, ret) ==
    IF lens = <<>>
    THEN [panic |-> FALSE, ret |-> ret]
    ELSE LET s == checked_add(cumsum, Head(lens))
         IN  IF s.some
             THEN cumlens_loop(Tail(lens), s.v, Append(ret, cumsum))
             ELSE [panic |-> TRUE, ret |-> Append(ret, cumsum)]

\* Whether cumulative_lengths panics on these chunks.
cumulative_lengths_panics(arrs) == cumlens_loop(Lens(arrs), 0, <<>>).panic

\* cumulative_lengths that never adds a chunk's length to cumsum.
cumulative_lengths_no_add(arrs) == [c \in DOMAIN arrs |-> 0]

\* cumulative_lengths: ret[c] is the sum of the lengths of the chunks before c.
cumulative_lengths(arrs) == cumlens_loop(Lens(arrs), 0, <<>>).ret

\* slice::partition_point(|cl| idx >= *cl): the number of leading entries
\* that satisfy the predicate.
partition_point(cumlens, idx) ==
    IF \A c \in DOMAIN cumlens : idx >= cumlens[c]
    THEN Len(cumlens)
    ELSE (CHOOSE c \in DOMAIN cumlens :
             /\ ~(idx >= cumlens[c])
             /\ \A d \in 1..(c - 1) : idx >= cumlens[d]) - 1

\* resolve_chunked_idx by a search that stops at the first table entry equal
\* to the one the partition point finds: among chunks that start at the
\* same cumulative length it picks the first, an empty one.
resolve_chunked_idx_first_equal(idx, cumlens) ==
    LET pp == partition_point(cumlens, idx)
        first == CHOOSE d \in 1..pp :
                    /\ cumlens[d] = cumlens[pp]
                    /\ \A e \in 1..(d - 1) : cumlens[e] # cumlens[pp]
    IN  <<first - 1, idx - cumlens[first]>>

\* resolve_chunked_idx without the subtraction of the chunk's cumulative
\* length: the global index is used as the offset in the chunk.
resolve_chunked_idx_global_offset(idx, cumlens) ==
    <<partition_point(cumlens, idx) - 1, idx>>

\* resolve_chunked_idx: (chunk_idx, arr_idx), both counted from 0.
resolve_chunked_idx(idx, cumlens) ==
    LET chunk_idx == partition_point(cumlens, idx) - 1
    IN  <<chunk_idx, idx - cumlens[chunk_idx + 1]>>

\* ------------------------------------------------------------- accessors
\* Whether slot i (from 0) exists in arr.  The unchecked accessors are only
\* defined on such slots; a read outside is a read of foreign memory, shown
\* here as the value -1.
InArr(arr, i) == i >= 0 /\ i < Len(arr)

\* StaticArray::value_unchecked: the stored value, whatever the validity bit.
value_unchecked(arr, i) ==
    IF InArr(arr, i) THEN [v |-> arr[i + 1].v, ok |-> TRUE] ELSE [v |-> -1, ok |-> TRUE]

\* StaticArray::get_unchecked: None on a null slot.
get_unchecked(arr, i) ==
    IF InArr(arr, i)
    THEN IF arr[i + 1].ok THEN [v |-> arr[i + 1].v, ok |-> TRUE] ELSE NullElem
    ELSE [v |-> -1, ok |-> TRUE]

\* targets.get_unchecked(chunk_idx): the chunk, or nothing outside the vector.
chunk_at(targets, chunk_idx) ==
    IF chunk_idx >= 0 /\ chunk_idx < Len(targets) THEN targets[chunk_idx + 1] ELSE <<>>

target_value_unchecked(targets, cumlens, idx) ==
    LET r == resolve_chunked_idx(idx, cumlens)
    IN  value_unchecked(chunk_at(targets, r[1]), r[2])

target_get_unchecked(targets, cumlens, idx) ==
    LET r == resolve_chunked_idx(idx, cumlens)
    IN  get_unchecked(chunk_at(targets, r[1]), r[2])

\* ------------------------------------------------------ array construction
\* collect_arr_trusted over plain values: a chunk with no validity bitmap.
collect_values(items) == [elems |-> items, bitmap |-> FALSE]

\* collect_arr_trusted over optional values: a validity bitmap only when a
\* null was collected.
collect_options(items) ==
    [elems |-> items, bitmap |-> \E k \in DOMAIN items : ~items[k].ok]

\* polars_compute::gather::take_unchecked, the whole-chunk take primitive.
take_unchecked_arr(arr, idx_arr) ==
    collect_options([k \in DOMAIN idx_arr |->
        IF idx_arr[k].ok THEN get_unchecked(arr, idx_arr[k].v) ELSE NullElem])

\* ChunkedArray::rechunk: the same elements in exactly one chunk.
rechunk(chunks) == <<Concat(chunks)>>

\* IdxCa::mmap_slice: a slice seen as an IdxCa of one chunk without nulls.
mmap_slice(indices) == <<[k \in DOMAIN indices |-> [v |-> indices[k], ok |-> TRUE]]>>

\* ---------------------------------------------------------------- gatherers
\* gather_idx_array_unchecked that takes the value path whatever has_nulls.
gather_idx_array_unchecked_values_only(targets, has_nulls, indices) ==
    IF Len(targets) = 1
    THEN collect_values([k \in DOMAIN indices |-> value_unchecked(targets[1], indices[k])])
    ELSE collect_values([k \in DOMAIN indices |->
             target_value_unchecked(targets, cumulative_lengths(targets), indices[k])])

\* gather_idx_array_unchecked: one output chunk from dense indices.
gather_idx_array_unchecked(targets, has_nulls, indices) ==
    IF Len(targets) = 1
    THEN IF has_nulls
         THEN collect_options([k \in DOMAIN indices |-> get_unchecked(targets[1], indices[k])])
         ELSE collect_values([k \in DOMAIN indices |-> value_unchecked(targets[1], indices[k])])
    ELSE LET cumlens == cumulative_lengths(targets)
         IN  IF has_nulls
             THEN collect_options([k \in DOMAIN indices |->
                      target_get_unchecked(targets, cumlens, indices[k])])
             ELSE collect_values([k \in DOMAIN indices |->
                      target_value_unchecked(targets, cumlens, indices[k])])

\* The scalar closure without its branch on the index chunk's nulls: the
\* stored value of every slot is dereferenced.
gather_chunk_scalar_ignores_validity(targets, targets_have_nulls, idx_arr) ==
    gather_idx_array_unchecked(targets, targets_have_nulls, values(idx_arr))

\* The scalar closure that skips the null index slots instead of emitting
\* a null for each (filter_map in place of map).
gather_chunk_scalar_skips_nulls(targets, targets_have_nulls, idx_arr) ==
    gather_idx_array_unchecked(targets, targets_have_nulls,
        values(SelectSeq(idx_arr, LAMBDA e : e.ok)))

\* The closure of ChunkTakeUnchecked<IdxCa>::take_unchecked for the scalar
\* categories: the output chunk of one index chunk.
gather_chunk_scalar(targets, targets_have_nulls, idx_arr) ==
    IF null_count(idx_arr) = 0
    THEN gather_idx_array_unchecked(targets, targets_have_nulls, values(idx_arr))
    ELSE IF Len(targets) = 1
    THEN IF targets_have_nulls
         THEN collect_options([k \in DOMAIN idx_arr |->
                  IF idx_arr[k].ok THEN get_unchecked(targets[1], idx_arr[k].v) ELSE NullElem])
         ELSE collect_options([k \in DOMAIN idx_arr |->
                  IF idx_arr[k].ok THEN value_unchecked(targets[1], idx_arr[k].v) ELSE NullElem])
    ELSE LET cumlens == cumulative_lengths(targets)
         IN  IF targets_have_nulls
             THEN collect_options([k \in DOMAIN idx_arr |->
                      IF idx_arr[k].ok
                      THEN target_get_unchecked(targets, cumlens, idx_arr[k].v)
                      ELSE NullElem])
             ELSE collect_options([k \in DOMAIN idx_arr |->
                      IF idx_arr[k].ok
                      THEN target_value_unchecked(targets, cumlens, idx_arr[k].v)
                      ELSE NullElem])

\* The closure of take_unchecked for BinaryChunked and StringChunked.
gather_chunk_view(targets, targets_have_nulls, idx_arr) ==
    IF Len(targets) = 1
    THEN take_unchecked_arr(targets[1], idx_arr)
    ELSE LET cumlens == cumulative_lengths(targets)
         IN  IF targets_have_nulls
             THEN collect_options([k \in DOMAIN idx_arr |->
                      IF idx_arr[k].ok
                      THEN target_get_unchecked(targets, cumlens, idx_arr[k].v)
                      ELSE NullElem])
             ELSE collect_options([k \in DOMAIN idx_arr |->
                      IF idx_arr[k].ok
                      THEN target_value_unchecked(targets, cumlens, idx_arr[k].v)
                      ELSE NullElem])

\* The nested gather with the index left in its chunks: one take per index chunk.
gather_nested_per_index_chunk(targets, indices) ==
    [c \in DOMAIN indices |-> take_unchecked_arr(rechunk(targets)[1], indices[c])]

\* The nested gather with the target left in its chunks: the merged index is
\* taken from the first target chunk alone.
gather_nested_target_not_merged(targets, indices) ==
    <<take_unchecked_arr(targets[1], rechunk(indices)[1])>>

\* take_unchecked for StructChunked, ArrayChunked and ListChunked: target and
\* index are rechunked and the take primitive runs on the single chunks.
gather_nested(targets, indices) ==
    <<take_unchecked_arr(rechunk(targets)[1], rechunk(indices)[1])>>

\* ------------------------------------------------------- sortedness flag
\* The flag algebra where two reversals do not cancel.
_update_gather_sorted_flag_no_cancel(sorted_arr, sorted_idx) ==
    CASE sorted_idx = "Not" -> "Not"
      [] sorted_arr = "Not" -> "Not"
      [] sorted_arr = "Ascending" /\ sorted_idx = "Ascending" -> "Ascending"
      [] OTHER -> "Descending"

\* The flag algebra where a target flagged Not does not absorb.
_update_gather_sorted_flag_not_target(sorted_arr, sorted_idx) ==
    CASE sorted_idx = "Not" -> "Not"
      [] sorted_arr = "Not" -> sorted_idx
      [] sorted_arr = sorted_idx -> "Ascending"
      [] OTHER -> "Descending"

_update_gather_sorted_flag(sorted_arr, sorted_idx) ==
    CASE sorted_idx = "Not" -> "Not"
      [] sorted_arr = "Not" -> "Not"
      [] sorted_arr = "Ascending" /\ sorted_idx = "Ascending" -> "Ascending"
      [] sorted_arr = "Ascending" /\ sorted_idx = "Descending" -> "Descending"
      [] sorted_arr = "Descending" /\ sorted_idx = "Ascending" -> "Descending"
      [] sorted_arr = "Descending" /\ sorted_idx = "Descending" -> "Ascending"


\* ------------------------------------------------------------------ inputs
\* The stored value of the target element at logical position p (from 0).
TargetVal(p) == 10 * (p + 1)

\* The chunk layouts of a target: 1..MaxTargetChunks chunks, empty chunks
\* allowed anywhere, at most MaxTargetLen elements in all.
TargetLayouts ==
    {l \in UNION {[1..n -> 0..MaxTargetLen] : n \in 1..MaxTargetChunks} :
        SumSeq(l) <= MaxTargetLen}

\* The target chunks of layout l whose logical element p is valid iff valid[p+1].
TargetChunks(l, valid) ==
    [c \in DOMAIN l |->
        [k \in 1..l[c] |->
            LET p == SumSeq(SubSeq(l, 1, c - 1)) + k - 1
            IN  [v |-> IF valid[p + 1] THEN TargetVal(p) ELSE 0, ok |-> valid[p + 1]]]]

Targets ==
    UNION {{[cat |-> cat, chunks |-> TargetChunks(l, valid), flag |-> f] :
               cat \in Categories, f \in IsSorted, valid \in [1..SumSeq(l) -> BOOLEAN]} :
           l \in TargetLayouts}

\* An index slot: a stored IdxSize, in range or not, and its validity bit.
IdxSlots == [v : 0..MaxTargetLen, ok : BOOLEAN]
IdxArrays == UNION {[1..n -> IdxSlots] : n \in 0..MaxIdxLen}

\* Segmented indices: 1..MaxIdxChunks chunks, at most MaxIdxLen slots in all.
IdxCas ==
    {[kind |-> "ca", chunks |-> ch, flag |-> f] :
        f \in IsSorted,
        ch \in {x \in UNION {[1..n -> IdxArrays] : n \in 1..MaxIdxChunks} :
                   ca_len(x) <= MaxIdxLen}}

\* Flat slices of IdxSize: no nulls, no chunking, no sortedness flag.
IdxSlices ==
    {[kind |-> "slice", chunks |-> <<a>>, flag |-> "Not"] :
        a \in {x \in IdxArrays : null_count(x) = 0}}

Indices == IdxCas \cup IdxSlices

\* AsRef<[IdxSize]>::as_ref of a flat slice index.
as_ref(i) == values(i.chunks[1])

\* Every non-null index is < len(target): what the caller of the unchecked
\* gather must guarantee.
InRange(t, i) ==
    \A c \in DOMAIN i.chunks : \A k \in DOMAIN i.chunks[c] :
        i.chunks[c][k].ok => i.chunks[c][k].v < ca_len(t.chunks)

\* ------------------------------------------------------------------- state
VARIABLES
    pc,       \* "idle", "validate", "gather", "finish", "done"
    target,   \* the ChunkedArray gathered from
    index,    \* the indices: a flat slice or an IdxCa
    checked,  \* TRUE for ChunkTake::take, FALSE for take_unchecked
    nvalid,   \* number of index chunks the validator has accepted
    out,      \* the output chunks built so far
    nbuilt,   \* number of cumulative-length tables built in this call
    result,   \* what the call returned
    ret       \* what a direct call of a validator or of the resolver returned

vars == <<pc, target, index, checked, nvalid, out, nbuilt, result, ret>>

NoTarget == [cat |-> "Scalar", chunks |-> <<>>, flag |-> "Not"]
NoIndex == [kind |-> "slice", chunks |-> <<>>, flag |-> "Not"]
NoResult == [status |-> "none", err |-> Ok, chunks |-> <<>>, flag |-> "Not"]
NoRet == [fn |-> "none", chunks |-> <<>>, n |-> 0, err |-> Ok, val |-> <<>>]

Init ==
    /\ pc = "idle"
    /\ target = NoTarget
    /\ index = NoIndex
    /\ checked = FALSE
    /\ nvalid = 0
    /\ out = <<>>
    /\ nbuilt = 0
    /\ result = NoResult
    /\ ret = NoRet

targets_have_nulls == ca_null_count(target.chunks) > 0

\* A caller enters take (checked) or take_unchecked with a target and an
\* index; the unchecked entry requires the indices to be in range.
Call(t, i, c) ==
    /\ pc = "idle"
    /\ c \/ InRange(t, i)
    /\ target' = t
    /\ index' = i
    /\ checked' = c
    /\ pc' = IF c THEN "validate" ELSE "gather"
    /\ UNCHANGED <<nvalid, out, nbuilt, result, ret>>

\* ChunkTake<I>::take: check_bounds over the whole slice.
ValidateSlice ==
    /\ pc = "validate"
    /\ index.kind = "slice"
    /\ LET r == check_bounds(as_ref(index), ca_len(target.chunks))
       IN  IF r = Ok
           THEN /\ nvalid' = 1
                /\ pc' = "gather"
                /\ UNCHANGED result
           ELSE /\ result' = [NoResult EXCEPT !.status = "err", !.err = r]
                /\ pc' = "done"
                /\ UNCHANGED nvalid
    /\ UNCHANGED <<target, index, checked, out, nbuilt, ret>>

\* ChunkTake<IdxCa>::take that starts to gather as soon as the first index
\* chunk has been accepted.
ValidateChunk_first_chunk_only ==
    /\ pc = "validate"
    /\ index.kind = "ca"
    /\ IF chunk_is_ok(index.chunks[nvalid + 1], ca_len(target.chunks))
       THEN /\ nvalid' = nvalid + 1
            /\ pc' = "gather"
            /\ UNCHANGED result
       ELSE /\ result' = [NoResult EXCEPT !.status = "err",
                             !.err = Err("OutOfBounds", "gather indices are out of bounds")]
            /\ pc' = "done"
            /\ UNCHANGED nvalid
    /\ UNCHANGED <<target, index, checked, out, nbuilt, ret>>

\* ChunkTake<IdxCa>::take: check_bounds_ca, one index chunk per step; the
\* first chunk that fails ends the call with the OutOfBounds error.
ValidateChunk ==
    /\ pc = "validate"
    /\ index.kind = "ca"
    /\ IF chunk_is_ok(index.chunks[nvalid + 1], ca_len(target.chunks))
       THEN /\ nvalid' = nvalid + 1
            /\ pc' = IF nvalid + 1 = Len(index.chunks) THEN "gather" ELSE "validate"
            /\ UNCHANGED result
       ELSE /\ result' = [NoResult EXCEPT !.status = "err",
                             !.err = Err("OutOfBounds", "gather indices are out of bounds")]
            /\ pc' = "done"
            /\ UNCHANGED nvalid
    /\ UNCHANGED <<target, index, checked, out, nbuilt, ret>>

\* ChunkTakeUnchecked<I>::take_unchecked of the scalar categories: one
\* output chunk from the slice.
GatherSlice ==
    /\ pc = "gather"
    /\ target.cat = "Scalar"
    /\ index.kind = "slice"
    /\ out' = <<gather_idx_array_unchecked(target.chunks, targets_have_nulls, as_ref(index))>>
    /\ nbuilt' = IF Len(target.chunks) = 1 THEN nbuilt ELSE nbuilt + 1
    /\ pc' = "finish"
    /\ UNCHANGED <<target, index, checked, nvalid, result, ret>>

\* The index the segmented gatherers walk: the IdxCa itself, or the slice
\* wrapped by IdxCa::mmap_slice.
idx_chunks == IF index.kind = "slice" THEN mmap_slice(as_ref(index)) ELSE index.chunks

\* ChunkTakeUnchecked<IdxCa>::take_unchecked of the scalar, binary and
\* string categories: the next index chunk gives the next output chunk.
GatherChunk ==
    /\ pc = "gather"
    /\ \/ target.cat = "Scalar" /\ index.kind = "ca"
       \/ target.cat \in ViewCats
    /\ LET idx_arr == idx_chunks[Len(out) + 1]
       IN  out' = Append(out,
                    IF target.cat = "Scalar"
                    THEN gather_chunk_scalar(target.chunks, targets_have_nulls, idx_arr)
                    ELSE gather_chunk_view(target.chunks, targets_have_nulls, idx_arr))
    /\ nbuilt' = IF Len(target.chunks) = 1 THEN nbuilt ELSE nbuilt + 1
    /\ pc' = IF Len(out) + 1 = Len(idx_chunks) THEN "finish" ELSE "gather"
    /\ UNCHANGED <<target, index, checked, nvalid, result, ret>>

\* take_unchecked of StructChunked, ArrayChunked and ListChunked.
GatherNested ==
    /\ pc = "gather"
    /\ target.cat \in NestedCats
    /\ out' = gather_nested(target.chunks, idx_chunks)
    /\ pc' = "finish"
    /\ UNCHANGED <<target, index, checked, nvalid, nbuilt, result, ret>>

\* The flag of the result with a flat slice taken for an Ascending index.
result_flag_slice_ascending ==
    IF target.cat \in NestedCats THEN "Not"
    ELSE IF target.cat = "Scalar" /\ index.kind = "slice" THEN "Not"
    ELSE _update_gather_sorted_flag(target.flag,
                                    IF index.kind = "slice" THEN "Ascending" ELSE index.flag)

\* The sortedness flag of the array built from the output chunks.  The
\* segmented scalar, binary and string gathers set it from the two input
\* flags; from_chunk_iter_like (scalar by slice) and copy_with_chunks
\* (nested) leave the flag of a new array, Not.
result_flag ==
    IF target.cat \in NestedCats THEN "Not"
    ELSE IF target.cat = "Scalar" /\ index.kind = "slice" THEN "Not"
    ELSE _update_gather_sorted_flag(target.flag,
                                    IF index.kind = "slice" THEN "Not" ELSE index.flag)

\* The output chunks become the resulting ChunkedArray.
Finish ==
    /\ pc = "finish"
    /\ result' = [status |-> "ok", err |-> Ok, chunks |-> out, flag |-> result_flag]
    /\ pc' = "done"
    /\ UNCHANGED <<target, index, checked, nvalid, out, nbuilt, ret>>

\* The call has returned; the next one starts from scratch.
Reset ==
    /\ pc = "done"
    /\ pc' = "idle"
    /\ target' = NoTarget
    /\ index' = NoIndex
    /\ checked' = FALSE
    /\ nvalid' = 0
    /\ out' = <<>>
    /\ nbuilt' = 0
    /\ result' = NoResult
    /\ ret' = NoRet

Next ==
    \/ pc = "idle" /\ \E t \in Targets, i \in Indices, c \in BOOLEAN : Call(t, i, c)
    \/ ValidateSlice
    \/ ValidateChunk
    \/ GatherSlice
    \/ GatherChunk
    \/ GatherNested
    \/ Finish
    \/ Reset

Spec == Init /\ [][Next]_vars

\* ------------------------------------- direct calls of the public functions
\* The validators and the resolver are public functions of their own; a
\* direct call leaves the gather untouched and records its arguments and
\* what it returned in ret.

\* What unwrap() on None leaves the caller with: the thread panics.
Panic == Err("Panic", "called Option::unwrap() on a None value")

\* Index arrays of up to MaxProbeLen slots, long enough to span several
\* blocks of 32: every slot is bg but slot p, which is s.
ProbeSlots == [v : {0, MaxTargetLen}, ok : BOOLEAN]
ProbeArray(n, bg, p, s) == [k \in 1..n |-> IF k = p THEN s ELSE bg]
ProbeBackgrounds == {[v |-> 0, ok |-> TRUE], [v |-> MaxTargetLen, ok |-> FALSE]}

\* Segmented indices handed to check_bounds_ca.
ProbeChunks == UNION {[1..n -> IdxArrays] : n \in 1..MaxIdxChunks}

\* Chunked targets handed to the resolver: up to MaxUnitChunks chunks of up
\* to MaxUnitChunkLen valid elements each, zero-length chunks anywhere.
UnitLayouts == UNION {[1..n -> 0..MaxUnitChunkLen] : n \in 1..MaxUnitChunks}
UnitChunks(l) == TargetChunks(l, [p \in 1..SumSeq(l) |-> TRUE])

\* check_bounds_nulls(idx, len) called on an index array with a validity bitmap.
CheckBoundsNullsCall(idx, len) ==
    /\ pc = "idle"
    /\ ret' = [fn |-> "check_bounds_nulls", chunks |-> <<idx>>, n |-> len,
               err |-> check_bounds_nulls(idx, len), val |-> <<>>]
    /\ pc' = "done"
    /\ UNCHANGED <<target, index, checked, nvalid, out, nbuilt, result>>

\* check_bounds_ca(indices, len) called on a segmented index.
CheckBoundsCaCall(indices, len) ==
    /\ pc = "idle"
    /\ ret' = [fn |-> "check_bounds_ca", chunks |-> indices, n |-> len,
               err |-> check_bounds_ca(indices, len), val |-> <<>>]
    /\ pc' = "done"
    /\ UNCHANGED <<target, index, checked, nvalid, out, nbuilt, result>>

\* cumulative_lengths(arrs): the table, or the panic of unwrap().
CumulativeLengthsCall(arrs) ==
    /\ pc = "idle"
    /\ ret' = IF cumulative_lengths_panics(arrs)
              THEN [fn |-> "cumulative_lengths", chunks |-> arrs, n |-> 0,
                    err |-> Panic, val |-> <<>>]
              ELSE [fn |-> "cumulative_lengths", chunks |-> arrs, n |-> 0,
                    err |-> Ok, val |-> cumulative_lengths(arrs)]
    /\ pc' = "done"
    /\ UNCHANGED <<target, index, checked, nvalid, out, nbuilt, result>>

\* The multi-chunk branch of the gatherers for one index: the table is
\* built from the target chunks, then the index is resolved against it.  A
\* panic while the table is built unwinds before any resolution.
ResolveCall(arrs, idx) ==
    /\ pc = "idle"
    /\ idx < ca_len(arrs)
    /\ ret' = IF cumulative_lengths_panics(arrs)
              THEN [fn |-> "resolve_chunked_idx", chunks |-> arrs, n |-> idx,
                    err |-> Panic, val |-> <<>>]
              ELSE [fn |-> "resolve_chunked_idx", chunks |-> arrs, n |-> idx,
                    err |-> Ok,
                    val |-> resolve_chunked_idx(idx, cumulative_lengths(arrs))]
    /\ pc' = "done"
    /\ UNCHANGED <<target, index, checked, nvalid, out, nbuilt, result>>

NextUnits ==
    \/ pc = "idle" /\ \E n \in 0..MaxProbeLen, bg \in ProbeBackgrounds, p \in 1..MaxProbeLen,
                         s \in ProbeSlots, len \in 0..MaxTargetLen :
            p <= n /\ CheckBoundsNullsCall(ProbeArray(n, bg, p, s), len)
    \/ pc = "idle" /\ \E indices \in ProbeChunks, len \in 0..MaxTargetLen :
            CheckBoundsCaCall(indices, len)
    \/ pc = "idle" /\ \E l \in UnitLayouts : CumulativeLengthsCall(UnitChunks(l))
    \/ pc = "idle" /\ \E l \in UnitLayouts, idx \in 0..IdxMax : ResolveCall(UnitChunks(l), idx)
    \/ Reset

SpecUnits == Init /\ [][NextUnits]_vars

\* -------------------------------------------------- the gather as a function
\* ChunkTakeUnchecked::take_unchecked of target t by index i, all at once:
\* the chunks and the flag of the array it returns.
take_unchecked(t, i) ==
    LET has_nulls == ca_null_count(t.chunks) > 0
        ich == IF i.kind = "slice" THEN mmap_slice(as_ref(i)) ELSE i.chunks
        iflag == IF i.kind = "slice" THEN "Not" ELSE i.flag
    IN  IF t.cat \in NestedCats
        THEN [chunks |-> gather_nested(t.chunks, ich), flag |-> "Not"]
        ELSE IF t.cat \in ViewCats
        THEN [chunks |-> [c \in DOMAIN ich |-> gather_chunk_view(t.chunks, has_nulls, ich[c])],
              flag |-> _update_gather_sorted_flag(t.flag, iflag)]
        ELSE IF i.kind = "slice"
        THEN [chunks |-> <<gather_idx_array_unchecked(t.chunks, has_nulls, as_ref(i))>>,
              flag |-> "Not"]
        ELSE [chunks |-> [c \in DOMAIN ich |-> gather_chunk_scalar(t.chunks, has_nulls, ich[c])],
              flag |-> _update_gather_sorted_flag(t.flag, iflag)]

\* ------------------------------------------------------------ observations
\* The logical elements of the target, of the index and of the result.
T == Concat(target.chunks)
I == Concat(index.chunks)
Elems(chunks) == Concat([c \in DOMAIN chunks |-> chunks[c].elems])
R == Elems(result.chunks)

Returned == pc = "done"
Succeeded == pc = "done" /\ result.status = "ok"
Failed == pc = "done" /\ result.status = "err"

\* The flag table of section 4.5, row = target, column = index.
SortedTable ==
    [a \in IsSorted |-> [b \in IsSorted |->
        IF a = "Not" \/ b = "Not" THEN "Not"
        ELSE IF a = b THEN "Ascending" ELSE "Descending"]]

\* The flag of the index as the gather sees it: a flat slice counts as Not.
IndexFlag == IF index.kind = "slice" THEN "Not" ELSE index.flag

\* ------------------------------------------------------------------ claims

\* C1: a checked gather of a target without nulls by an index without nulls
\* whose values are all in range succeeds, result[k] = target[index[k]] at
\* every position k, and no output chunk carries a validity bitmap.
C1_DenseGather ==
    (/\ Returned /\ checked
     /\ ca_null_count(target.chunks) = 0
     /\ ca_null_count(index.chunks) = 0
     /\ InRange(target, index))
    => /\ result.status = "ok"
       /\ Len(R) = Len(I)
       /\ \A k \in DOMAIN I : R[k] = [v |-> T[I[k].v + 1].v, ok |-> TRUE]
       /\ \A c \in DOMAIN result.chunks : ~result.chunks[c].bitmap

\* C1 witness: a two-chunk dense scalar target gathered, checked, through a
\* dense index that reads the second chunk first.
C1_Witness ==
    /\ Succeeded /\ checked
    /\ target.cat = "Scalar"
    /\ Lens(target.chunks) = <<1, 1>>
    /\ ca_null_count(target.chunks) = 0
    /\ index.kind = "ca"
    /\ values(I) = <<1, 0>>
    /\ ca_null_count(index.chunks) = 0
    /\ R = <<[v |-> 20, ok |-> TRUE], [v |-> 10, ok |-> TRUE]>>

\* C2: the checked gather returns the bounds error, with no output chunk,
\* if and only if some non-null index is >= len(target).
C2_BoundsErrorIff ==
    (Returned /\ checked)
    => /\ result.status = "err" <=> ~InRange(target, index)
       /\ result.status = "err" =>
            /\ result.err.kind = "OutOfBounds"
            /\ result.chunks = <<>>
            /\ out = <<>>

\* C2 witness: a segmented index whose first chunk has nulls and passes and
\* whose second chunk, without nulls, holds the out-of-range value.
C2_Witness ==
    /\ Failed /\ checked
    /\ index.kind = "ca"
    /\ Len(index.chunks) = 2
    /\ null_count(index.chunks[1]) > 0
    /\ null_count(index.chunks[2]) = 0
    /\ Len(index.chunks[2]) = 1
    /\ index.chunks[2][1].v >= ca_len(target.chunks)
    /\ ca_len(target.chunks) > 0

\* C3: when every non-null index is in range the checked gather succeeds,
\* and the result is null wherever the index is null, whatever value the
\* null slot stores and whatever the target holds.
C3_NullIndexGivesNull ==
    (Returned /\ checked /\ InRange(target, index))
    => /\ result.status = "ok"
       /\ Len(R) = Len(I)
       /\ \A k \in DOMAIN I : ~I[k].ok => R[k] = NullElem

\* C3 witness: a successful checked gather whose index has a null slot that
\* stores a value >= len(target), next to a valid slot.
C3_Witness ==
    /\ Succeeded /\ checked
    /\ target.cat = "Scalar"
    /\ Len(I) = 2
    /\ \E k \in DOMAIN I : ~I[k].ok /\ I[k].v >= ca_len(target.chunks) /\ R[k] = NullElem
    /\ \E k \in DOMAIN I : I[k].ok /\ R[k].ok

\* C4: a non-null in-range index into a null target slot gives a null.
C4_NullTargetGivesNull ==
    Succeeded
    => /\ Len(R) = Len(I)
       /\ \A k \in DOMAIN I :
            (I[k].ok /\ I[k].v < Len(T) /\ ~T[I[k].v + 1].ok) => R[k] = NullElem

\* C4 witness: a two-chunk target whose second chunk holds a null, read by a
\* valid index of an index that has no nulls.
C4_Witness ==
    /\ Succeeded
    /\ Lens(target.chunks) = <<1, 1>>
    /\ T[1].ok /\ ~T[2].ok
    /\ ca_null_count(index.chunks) = 0
    /\ values(I) = <<1, 0>>
    /\ R = <<NullElem, [v |-> 10, ok |-> TRUE]>>

\* C5: whenever every non-null index is in range, the checked gather returns
\* the array the unchecked gather returns: same chunks, values, nulls, flag.
C5_CheckedEqualsUnchecked ==
    (Returned /\ checked /\ InRange(target, index))
    => /\ result.status = "ok"
       /\ result.chunks = take_unchecked(target, index).chunks
       /\ result.flag = take_unchecked(target, index).flag

\* C5 witness: a successful checked gather by a two-chunk index with a null
\* slot that stores an out-of-range value, both flags set.
C5_Witness ==
    /\ Succeeded /\ checked
    /\ index.kind = "ca"
    /\ Len(index.chunks) = 2
    /\ \E k \in DOMAIN I : ~I[k].ok /\ I[k].v >= ca_len(target.chunks)
    /\ target.flag = "Descending" /\ index.flag = "Ascending"
    /\ result.flag = "Descending"

\* C6: gathering from the target in its chunks gives the same logical
\* output as gathering from the same elements stored as one chunk.
C6_ChunkingInvariant ==
    Succeeded
    => R = Elems(take_unchecked([target EXCEPT !.chunks = rechunk(target.chunks)], index).chunks)

\* C6 witness: a target split after an empty first chunk, with a null, read
\* at both of its elements.
C6_Witness ==
    /\ Succeeded
    /\ target.cat = "Scalar"
    /\ Lens(target.chunks) = <<0, 2>>
    /\ ~T[1].ok /\ T[2].ok
    /\ values(I) = <<1, 0>>
    /\ I[1].ok /\ I[2].ok
    /\ R = <<[v |-> 20, ok |-> TRUE], NullElem>>

\* C7: _update_gather_sorted_flag(target flag, index flag) equals the table
\* of section 4.5, on the flags of every call (all nine pairs are called).
C7_FlagTable ==
    pc # "idle"
    => _update_gather_sorted_flag(target.flag, index.flag) = SortedTable[target.flag][index.flag]

\* C7 witness: the propagator has run on (Descending, Descending) and the
\* result carries Ascending.
C7_Witness ==
    /\ Succeeded
    /\ target.cat = "Scalar" /\ index.kind = "ca"
    /\ target.flag = "Descending" /\ index.flag = "Descending"
    /\ result.flag = "Ascending"

C9_OutputLength ==
    Succeeded => Len(R) = Len(I)

\* C9 witness: a scalar gather by a two-chunk index with a null slot in
\* each chunk.
C9_Witness ==
    /\ Succeeded
    /\ target.cat = "Scalar"
    /\ index.kind = "ca"
    /\ Lens(index.chunks) = <<1, 1>>
    /\ ~I[1].ok /\ ~I[2].ok
    /\ Len(R) = 2

\* C10 as stated: a gather by a segmented index of m chunks gives m output
\* chunks, chunk j as long as index chunk j, whatever the category.
C10_MirrorsIndexEveryCategory ==
    (Succeeded /\ index.kind = "ca")
    => /\ Len(result.chunks) = Len(index.chunks)
       /\ \A j \in DOMAIN result.chunks :
            Len(result.chunks[j].elems) = Len(index.chunks[j])

\* C10 amended: the output mirrors the index's chunking for the scalar,
\* binary and string categories; a struct, list or fixed-size-array gather
\* gives exactly one chunk, as long as the whole index.
C10_MirrorsIndexOrOneChunk ==
    (Succeeded /\ index.kind = "ca")
    => IF target.cat \in NestedCats
       THEN /\ Len(result.chunks) = 1
            /\ Len(result.chunks[1].elems) = Len(I)
       ELSE /\ Len(result.chunks) = Len(index.chunks)
            /\ \A j \in DOMAIN result.chunks :
                 Len(result.chunks[j].elems) = Len(index.chunks[j])

\* C10 witness: a two-chunk index of lengths 2 and 0 over a two-chunk binary
\* target gives output chunks of lengths 2 and 0.
C10_Witness ==
    /\ Succeeded
    /\ target.cat = "Binary"
    /\ Len(target.chunks) = 2
    /\ index.kind = "ca"
    /\ Lens(index.chunks) = <<2, 0>>
    /\ Len(result.chunks) = 2
    /\ Len(result.chunks[1].elems) = 2
    /\ Len(result.chunks[2].elems) = 0

\* C11: in a checked gather the validation of every index chunk has finished
\* before any target element is read or any output chunk is built, and a
\* call whose validation failed has performed no gather step: it returns
\* the error with no output chunk and no table built.
C11_ValidateBeforeGather ==
    checked =>
        /\ (pc \in {"gather", "finish"} \/ out # <<>> \/ nbuilt > 0 \/ Succeeded)
             => nvalid = Len(index.chunks)
        /\ Failed => (out = <<>> /\ nbuilt = 0 /\ result.chunks = <<>>)

\* C11 witness: a checked gather by a two-chunk index has built its first
\* output chunk, both index chunks validated before.
C11_Witness ==
    /\ checked
    /\ pc = "gather"
    /\ index.kind = "ca"
    /\ Len(index.chunks) = 2
    /\ Len(out) = 1
    /\ nvalid = 2

C13_ResolveChunk ==
    (ret.fn = "resolve_chunked_idx" /\ ret.err = Ok) =>
        LET arrs == ret.chunks
            idx == ret.n
            before == [d \in DOMAIN arrs |-> SumSeq(SubSeq(Lens(arrs), 1, d - 1))]
            table == cumulative_lengths(arrs)
            c == ret.val[1]
            o == ret.val[2]
        IN  /\ table[1] = 0
            /\ partition_point(table, idx) >= 1
            /\ c \in 0..(Len(arrs) - 1)
            /\ before[c + 1] <= idx
            /\ \A d \in DOMAIN arrs : before[d] <= idx => d <= c + 1
            /\ o = idx - before[c + 1]
            /\ o >= 0
            /\ o < Len(arrs[c + 1])

\* C13 witness: chunks of lengths 1, 0, 1 and idx 1: the empty middle chunk
\* is skipped, the index resolves to offset 0 of the third chunk.
C13_Witness ==
    /\ ret.fn = "resolve_chunked_idx"
    /\ Lens(ret.chunks) = <<1, 0, 1>>
    /\ ret.n = 1
    /\ ret.err = Ok
    /\ ret.val = <<2, 0>>

C15_TableBuiltOnce ==
    (Succeeded /\ target.cat \notin NestedCats)
    => nbuilt = IF Len(target.chunks) = 1 THEN 0 ELSE 1

\* C16: a gather of a struct, list or fixed-size-array target by a segmented
\* index merges target and index into one chunk each and runs the
\* whole-array take once, so the result has exactly one chunk: the take of
\* the merged index from the merged target.
C16_NestedOneTake ==
    (target.cat \in NestedCats /\ index.kind = "ca" /\ (pc = "finish" \/ Succeeded))
    => /\ Len(out) = 1
       /\ out = <<take_unchecked_arr(Concat(target.chunks), Concat(index.chunks))>>
       /\ Succeeded => result.chunks = out

\* C16 witness: a two-chunk struct target gathered by a two-chunk index that
\* reads from the second target chunk gives one chunk of two elements.
C16_Witness ==
    /\ Succeeded
    /\ target.cat = "Struct"
    /\ Lens(target.chunks) = <<1, 1>>
    /\ index.kind = "ca"
    /\ Lens(index.chunks) = <<1, 1>>
    /\ I[1].ok /\ I[1].v = 1
    /\ Len(result.chunks) = 1
    /\ Len(R) = 2

\* C17 as stated: every bounds violation is one uniform error, the same kind
\* and message from check_bounds_nulls called directly and from
\* check_bounds_ca (whose error the checked gather returns), whether the
\* offending chunk has nulls or not.
C17_OneErrorKind ==
    /\ (ret.fn = "check_bounds_nulls" /\ ret.err # Ok)
         => ret.err = check_bounds_ca(ret.chunks, ret.n)
    /\ (ret.fn = "check_bounds_ca" /\ ret.err # Ok)
         => \A c \in DOMAIN ret.chunks :
               LET e == check_bounds_nulls(ret.chunks[c], ret.n)
               IN  e # Ok => e = ret.err

C19_SliceDelegates ==
    (Succeeded /\ index.kind = "slice" /\ target.cat # "Scalar")
    => LET vs == as_ref(index)
           wrapped == [kind |-> "ca",
                       chunks |-> <<[k \in DOMAIN vs |-> [v |-> vs[k], ok |-> TRUE]]>>,
                       flag |-> "Not"]
       IN  [chunks |-> result.chunks, flag |-> result.flag] = take_unchecked(target, wrapped)

\* C19 witness: an Ascending two-chunk string target gathered by a slice of
\* two values gives one chunk of two elements, flagged Not.
C19_Witness ==
    /\ Succeeded
    /\ index.kind = "slice"
    /\ target.cat = "String"
    /\ target.flag = "Ascending"
    /\ Len(target.chunks) = 2
    /\ Len(as_ref(index)) = 2
    /\ Len(result.chunks) = 1
    /\ Len(R) = 2
    /\ result.flag = "Not"

====
